---- MODULE Spec2Model ----
(***************************************************************************)
(* Grid-world MDP solvers: value_iteration.py (GridWorld, Agent with       *)
(* value_iteration) and bonus_policy_iteration.py (the same GridWorld, an  *)
(* Agent with evaluate_policy / improve_policy and the outer loop).        *)
(*                                                                         *)
(* Coordinates are the code's: a position is <<x, y>>, 0-based, x the      *)
(* column and y the row; map[y][x] of the code is map[y + 1][x + 1] here.  *)
(*                                                                         *)
(* Numbers.  The code computes in binary floating point.  Here every real  *)
(* is a fixed-point integer counting units of 1/Scale, and every product   *)
(* is rounded to the nearest unit (RoundDiv), as each floating-point       *)
(* operation rounds to the nearest representable number.  The unit is      *)
(* chosen so that the program's constants (rewards, probabilities, gamma,  *)
(* both thetas and the -1 sentinel) are exact.                             *)
(*                                                                         *)
(* Not modelled: value_history (append-only, never read by the solver),    *)
(* the print calls, and the counters that only feed them (count of         *)
(* value_iteration and of the main blocks); count of evaluate_policy is.   *)
(* An Agent's value table is taken to cover its grid, and its policy keys  *)
(* to be its env's states, as for the one Agent each main block builds.    *)
(***************************************************************************)
EXTENDS Integers, Sequences, FiniteSets, TLC

VARIABLES map, gamma, pos, ret, heap, agents, v, v_tmp, policy, delta, delta1,
          flag, is_stable, is_stable_local, count, pc, idx, prev, calls

vars == <<map, gamma, pos, ret, heap, agents, v, v_tmp, policy, delta, delta1,
          flag, is_stable, is_stable_local, count, pc, idx, prev, calls>>

envVars == <<pos, ret>>
agentVars == <<heap, agents>>
solverVars ==
    <<gamma, v, v_tmp, policy, delta, delta1, flag, is_stable, is_stable_local, count,
      pc, idx, prev, calls>>

\* what no step of a solver changes
restVars == <<pos, ret, heap, agents, calls>>

\* what only value_iteration uses, and what only the policy-iteration file uses
viOnly == <<delta1, flag>>
piOnly == <<is_stable, is_stable_local, count, prev>>

----------------------------------------------------------------------------
(* Bounds of the model *)

\* grids of the environment specifications have at most this many cells
MaxCells == 4

\* grids of the value-iteration specification have at most this many cells
MaxCellsVI == 3

\* grids of the policy-iteration specifications have at most this many cells
MaxCellsPI == 2

\* the caller of evaluate_policy and improve_policy makes at most this many calls
MaxCalls == 3

\* grids of the construction specification have at most this many cells
MaxCellsAgents == 2

\* at most this many Agents are constructed
MaxAgents == 2

\* get_reward is probed at coordinates from -Probe to (width or height) - 1 + Probe
Probe == 2

----------------------------------------------------------------------------
(* Module-level tables *)

\* units per 1.0
Scale == 100000

Tiles == {"White", "Brown", "Green", "Wall"}

\* TILE_REWARD: White -0.04, Brown -1, Green 1; no entry for Wall
TILE_REWARD == [White |-> (-4000), Brown |-> (-100000), Green |-> 100000]

\* ACTIONS (a reserved word of TLA+, hence the name)
Actions == [UP |-> 0, DOWN |-> 1, LEFT |-> 2, RIGHT |-> 3]

\* self.actions.values(), in the dict's insertion order
ActionValues == <<0, 1, 2, 3>>

ActionSet == {ActionValues[i] : i \in DOMAIN ActionValues}

\* the rectangular grids of w columns and h rows
GridsOf(w, h) == [1..h -> [1..w -> Tiles]]

\* all rectangular grids with at least one cell and at most n cells
GridsUpTo(n) ==
    UNION {GridsOf(w, h) : <<w, h>> \in {d \in (1..n) \X (1..n) : d[1] * d[2] <= n}}

Height(m) == Len(m)

Width(m) == Len(m[1])

----------------------------------------------------------------------------
(* Python list indexing: an index i of a list of length n is valid from -n *)
(* to n - 1, a negative index counting from the end; anything else raises  *)
(* IndexError.                                                             *)

PyIndexValid(n, i) == -n <= i /\ i < n

\* the 1-based position that the valid Python index i denotes
PyIndexPos(n, i) == IF i >= 0 THEN i + 1 ELSE n + i + 1

Raise(e) == [ok |-> FALSE, err |-> e]

Return(x) == [ok |-> TRUE, val |-> x]

----------------------------------------------------------------------------
(* GridWorld *)

\* self.states: (c, r) for r, row in enumerate(map) for c, tile in enumerate(row)
\* if tile != "Wall", as a set
States(m) ==
    {p \in (0..(Width(m) - 1)) \X (0..(Height(m) - 1)) : m[p[2] + 1][p[1] + 1] # "Wall"}

\* the same list in its order: row by row, each row left to right
StatesSeq(m) ==
    LET w == Width(m)
        cells == [i \in 1..(w * Height(m)) |-> <<(i - 1) % w, (i - 1) \div w>>]
    IN  SelectSeq(cells, LAMBDA p : m[p[2] + 1][p[1] + 1] # "Wall")

\* get_reward: self.tile_reward[self.map[y][x]]
get_reward(m, p) ==
    LET x == p[1]
        y == p[2]
    IN  IF ~PyIndexValid(Len(m), y) THEN Raise("IndexError")
        ELSE LET row == m[PyIndexPos(Len(m), y)]
             IN  IF ~PyIndexValid(Len(row), x) THEN Raise("IndexError")
                 ELSE LET tile == row[PyIndexPos(Len(row), x)]
                      IN  IF tile \notin DOMAIN TILE_REWARD THEN Raise("KeyError")
                          ELSE Return(TILE_REWARD[tile])

\* the displacement both step and is_valid_action apply; any other action
\* code falls through every elif and leaves the position as it is
Displace(x, y, action) ==
    IF action = Actions.UP THEN <<x, y - 1>>
    ELSE IF action = Actions.DOWN THEN <<x, y + 1>>
    ELSE IF action = Actions.LEFT THEN <<x - 1, y>>
    ELSE IF action = Actions.RIGHT THEN <<x + 1, y>>
    ELSE <<x, y>>

\* is_valid_action without its last test: a Wall counts as enterable
is_valid_action_NoWallTest(m, x, y, action) ==
    LET c == Displace(x, y, action)
        x_ == c[1]
        y_ == c[2]
    IN  IF Len(m) <= y_ \/ y_ < 0 THEN FALSE
        ELSE IF Len(m[1]) <= x_ \/ x_ < 0 THEN FALSE
        ELSE TRUE

is_valid_action(m, x, y, action) ==
    LET c == Displace(x, y, action)
        x_ == c[1]
        y_ == c[2]
    IN  IF Len(m) <= y_ \/ y_ < 0 THEN FALSE
        ELSE IF Len(m[1]) <= x_ \/ x_ < 0 THEN FALSE
        ELSE IF m[y_ + 1][x_ + 1] = "Wall" THEN FALSE
        ELSE TRUE

\* step paying the reward of the tile left instead of the tile entered
step_RewardOnDeparture(m, p, action) ==
    LET r == get_reward(m, p)
    IN  IF is_valid_action(m, p[1], p[2], action) = FALSE
        THEN IF r.ok THEN Return(<<p, r.val>>) ELSE r
        ELSE IF r.ok THEN Return(<<Displace(p[1], p[2], action), r.val>>) ELSE r

\* step: <<next_pos, reward>>, or the exception get_reward raised
step(m, p, action) ==
    IF is_valid_action(m, p[1], p[2], action) = FALSE
    THEN LET r == get_reward(m, p)
         IN  IF r.ok THEN Return(<<p, r.val>>) ELSE r
    ELSE LET next_pos == Displace(p[1], p[2], action)
             r == get_reward(m, next_pos)
         IN  IF r.ok THEN Return(<<next_pos, r.val>>) ELSE r

----------------------------------------------------------------------------
(* Agent.get_action_probs: <<actions, probs>>, probabilities in tenths;    *)
(* None for any other action code (no branch returns)                      *)

ProbDen == 10

\* Python's None, where an action code may stand: no action code is negative
None == -1

\* a local variable that no assignment has bound yet
Unbound == -2

\* get_action_probs with LEFT slipping to RIGHT instead of DOWN
get_action_probs_SlipOpposite(action) ==
    IF action = 0 THEN <<<<0, 2, 3>>, <<8, 1, 1>>>>
    ELSE IF action = 1 THEN <<<<1, 2, 3>>, <<8, 1, 1>>>>
    ELSE IF action = 2 THEN <<<<2, 0, 3>>, <<8, 1, 1>>>>
    ELSE IF action = 3 THEN <<<<3, 0, 1>>, <<8, 1, 1>>>>
    ELSE None

get_action_probs(action) ==
    IF action = 0 THEN <<<<0, 2, 3>>, <<8, 1, 1>>>>
    ELSE IF action = 1 THEN <<<<1, 2, 3>>, <<8, 1, 1>>>>
    ELSE IF action = 2 THEN <<<<2, 0, 1>>, <<8, 1, 1>>>>
    ELSE IF action = 3 THEN <<<<3, 0, 1>>, <<8, 1, 1>>>>
    ELSE None

----------------------------------------------------------------------------
(* Values of the variables a specification does not use *)

Idle == "idle"

EnvUnused == pos = None /\ ret = [kind |-> "none"]

AgentsUnused == heap = <<>> /\ agents = <<>>

SolverUnused ==
    /\ gamma = 0 /\ v = <<>> /\ v_tmp = <<>> /\ policy = <<>>
    /\ delta = Unbound /\ delta1 = Unbound /\ flag = TRUE /\ is_stable = FALSE
    /\ is_stable_local = FALSE /\ count = 0
    /\ pc = Idle /\ idx = 0 /\ prev = "none" /\ calls = 0

----------------------------------------------------------------------------
(* The environment on its own: a position that starts at any state of any  *)
(* grid and moves by calls of step.  ret is the last call and what it      *)
(* returned.                                                               *)

InitEnv ==
    /\ map \in GridsUpTo(MaxCells)
    /\ pos \in States(map)
    /\ ret = [kind |-> "none"]
    /\ AgentsUnused
    /\ SolverUnused

CallStep(action) ==
    /\ LET r == step(map, pos, action)
       IN  /\ ret' = [kind |-> "step", s |-> pos, a |-> action, out |-> r]
           /\ pos' = IF r.ok THEN r.val[1] ELSE pos
    /\ UNCHANGED <<map, agentVars, solverVars>>

NextEnv == \E action \in ActionSet : CallStep(action)

SpecEnv == InitEnv /\ [][NextEnv]_vars

----------------------------------------------------------------------------
(* The two pure functions, each applied once to an argument drawn in the   *)
(* initial state: get_reward at a coordinate in or around the grid (pos),  *)
(* get_action_probs at an action code.                                     *)

ProbeCoords(m) ==
    ((-Probe)..(Width(m) - 1 + Probe)) \X ((-Probe)..(Height(m) - 1 + Probe))

InitFn ==
    /\ map \in GridsUpTo(MaxCells)
    /\ pos \in ProbeCoords(map)
    /\ ret = [kind |-> "none"]
    /\ AgentsUnused
    /\ SolverUnused

CallGetReward ==
    /\ ret.kind = "none"
    /\ ret' = [kind |-> "get_reward", s |-> pos, out |-> get_reward(map, pos)]
    /\ UNCHANGED <<map, pos, agentVars, solverVars>>

CallGetActionProbs(action) ==
    /\ ret.kind = "none"
    /\ ret' = [kind |-> "get_action_probs", a |-> action, out |-> get_action_probs(action)]
    /\ UNCHANGED <<map, pos, agentVars, solverVars>>

NextFn ==
    \/ CallGetReward
    \/ \E action \in ActionSet : CallGetActionProbs(action)

SpecFn == InitFn /\ [][NextFn]_vars

----------------------------------------------------------------------------
(* What the claims about the environment speak of, stated without the      *)
(* code's helpers                                                          *)

InBounds(m, p) ==
    /\ 0 <= p[1] /\ p[1] < Width(m)
    /\ 0 <= p[2] /\ p[2] < Height(m)

TileAt(m, p) == m[p[2] + 1][p[1] + 1]

InBoundsNonWall(m, p) == InBounds(m, p) /\ TileAt(m, p) # "Wall"

\* the candidate coordinate: UP y-1, DOWN y+1, LEFT x-1, RIGHT x+1
Candidate(p, action) ==
    CASE action = 0 -> <<p[1], p[2] - 1>>
      [] action = 1 -> <<p[1], p[2] + 1>>
      [] action = 2 -> <<p[1] - 1, p[2]>>
      [] action = 3 -> <<p[1] + 1, p[2]>>

Rejected(m, p, action) == ~InBoundsNonWall(m, Candidate(p, action))

\* C1: step from a state returns a state that is inside the grid and not a
\* Wall, so the position stays in env.states through any sequence of steps.
C1_TransitionClosure ==
    /\ pos \in States(map)
    /\ ret.kind = "step" =>
          /\ ret.out.ok
          /\ InBoundsNonWall(map, ret.out.val[1])
          /\ ret.out.val[1] \in States(map)

\* a step towards a Wall tile, and one off the grid, have been taken
C1_Witness ==
    /\ ret.kind = "step"
    /\ InBounds(map, Candidate(ret.s, ret.a))
    /\ TileAt(map, Candidate(ret.s, ret.a)) = "Wall"
    /\ pos = ret.s

\* C2: a rejected move (candidate off the grid or a Wall) returns the state
\* itself with its own reward, any other move returns the candidate with the
\* candidate's reward; either way the reward is that of the returned state.
C2_RewardOnArrival ==
    ret.kind = "step" =>
        /\ ret.out.ok
        /\ IF Rejected(map, ret.s, ret.a)
           THEN ret.out.val = <<ret.s, TILE_REWARD[TileAt(map, ret.s)]>>
           ELSE ret.out.val = <<Candidate(ret.s, ret.a),
                                TILE_REWARD[TileAt(map, Candidate(ret.s, ret.a))]>>
        /\ ret.out.val[2] = TILE_REWARD[TileAt(map, ret.out.val[1])]

\* a move onto a tile whose reward differs from that of the tile left
C2_Witness ==
    /\ ret.kind = "step"
    /\ ~Rejected(map, ret.s, ret.a)
    /\ TileAt(map, ret.s) # TileAt(map, ret.out.val[1])
    /\ ret.out.val[2] = TILE_REWARD.Green

Perpendicular(action) == IF action \in {0, 1} THEN {2, 3} ELSE {0, 1}

Opposite(action) ==
    CASE action = 0 -> 1 [] action = 1 -> 0 [] action = 2 -> 3 [] action = 3 -> 2

\* C3: get_action_probs(a) is three distinct actions, a itself with 0.8 and
\* the two perpendicular ones with 0.1 each, summing to 1, never the opposite.
C3_SlipModel ==
    ret.kind = "get_action_probs" =>
        LET acts == ret.out[1]
            probs == ret.out[2]
        IN  /\ Len(acts) = 3 /\ Len(probs) = 3
            /\ Cardinality({acts[i] : i \in 1..3}) = 3
            /\ probs[1] + probs[2] + probs[3] = ProbDen
            /\ acts[1] = ret.a /\ 10 * probs[1] = 8 * ProbDen
            /\ {acts[2], acts[3]} = Perpendicular(ret.a)
            /\ 10 * probs[2] = ProbDen /\ 10 * probs[3] = ProbDen
            /\ \A i \in 1..3 : acts[i] # Opposite(ret.a)

C3_Witness == ret.kind = "get_action_probs" /\ ret.a = 3 /\ ret.out[1][1] = 3

\* C6: get_reward returns a reward for the in-bounds non-Wall coordinates and
\* fails for every other coordinate: a Wall, or x or y off the grid on either
\* side.
C6_RewardFailsOffGrid ==
    ret.kind = "get_reward" => (ret.out.ok <=> InBoundsNonWall(map, ret.s))

----------------------------------------------------------------------------
(* Arithmetic of the solvers *)

\* a / d rounded to the nearest integer (halves upwards), d > 0
RoundDiv(a, d) == (2 * a + d) \div (2 * d)

Abs(a) == IF a < 0 THEN -a ELSE a

Max(a, b) == IF a >= b THEN a ELSE b

\* gamma is a constructor argument, held in hundredths: 0.99 in both main
\* blocks, 0.5 a second value
GammaDen == 100

Gammas == {50, 99}

\* theta = 0.00101 of value_iteration
THETA_VI == 101

\* theta = .1 of evaluate_policy
THETA_EVAL == 10000

\* np.inf: above every value the arithmetic here can reach
Inf == 2147483647

\* self.env.values_map, np.zeros: one value per cell of the grid (the code's
\* array is size x size and must cover the grid)
ZeroValues(m) == [p \in (0..(Width(m) - 1)) \X (0..(Height(m) - 1)) |-> 0]

\* p * (r + self.gamma * vals[y_][x_]) for one outcome sr = (s_, r) of step
Term(p, sr, g, vals) ==
    RoundDiv(p * (sr[2] + RoundDiv(g * vals[sr[1]], GammaDen)), ProbDen)

\* the loop "for a, p in zip(actionl, probs): s_, r = self.env.step(s, a);
\* a_value += p * (...)" from its i-th pass on, a_value so far being acc
RECURSIVE SumOutcomes(_, _, _, _, _, _, _)
SumOutcomes(m, g, vals, s, ap, i, acc) ==
    IF i > Len(ap[1]) \/ i > Len(ap[2]) THEN acc
    ELSE SumOutcomes(m, g, vals, s, ap, i + 1,
                     acc + Term(ap[2][i], step(m, s, ap[1][i]).val, g, vals))

\* the action-value of one intended action: a_value = 0, then the loop
a_value(m, g, vals, s, action) ==
    SumOutcomes(m, g, vals, s, get_action_probs(action), 1, 0)

\* "if a_value > max_a_value": only a strictly greater action-value replaces
\* the incumbent
Better(incumbent, q, action) ==
    IF q > incumbent.max_a_value
    THEN [max_a_value |-> q, argmax_action |-> action]
    ELSE incumbent

\* the loop "for action in self.actions.values()" from its i-th pass on
RECURSIVE ScanFrom(_, _, _, _, _, _)
ScanFrom(m, g, vals, s, i, incumbent) ==
    IF i > Len(ActionValues) THEN incumbent
    ELSE ScanFrom(m, g, vals, s, i + 1,
                  Better(incumbent, a_value(m, g, vals, s, ActionValues[i]), ActionValues[i]))

\* the whole loop, max_a_value = -1 at its start: argmax_action stays unset
\* (None) when no action-value exceeds -1
ScanActions(m, g, vals, s) ==
    ScanFrom(m, g, vals, s, 1, [max_a_value |-> -Scale, argmax_action |-> None])

NumStates == Len(StatesSeq(map))

CurState == StatesSeq(map)[idx]

----------------------------------------------------------------------------
(* Agent.value_iteration (value_iteration.py).  pc is the position in the  *)
(* function: "vi_while" at the test of "while flag", "vi_for" inside the   *)
(* loop over the states with idx the next state, "vi_done" after the loop, *)
(* "vi_error" when line 147 reads delta1 before any assignment to it       *)
(* (UnboundLocalError).  delta1 is a local of the function: it keeps its   *)
(* value from one state to the next and from one sweep to the next.        *)

InitVI ==
    /\ map \in GridsUpTo(MaxCellsVI)
    /\ gamma \in Gammas
    /\ v = ZeroValues(map)
    /\ policy = [s \in States(map) |-> None]
    /\ v_tmp = [p \in DOMAIN ZeroValues(map) |-> Unbound]
    /\ delta = Unbound
    /\ delta1 = Unbound
    /\ flag = TRUE
    /\ pc = "vi_while"
    /\ idx = 0
    /\ is_stable = FALSE
    /\ is_stable_local = FALSE
    /\ count = 0
    /\ prev = "none"
    /\ calls = 0
    /\ EnvUnused
    /\ AgentsUnused

\* while flag: ... delta = 0; v_tmp = copy.deepcopy(self.v)
VI_While ==
    /\ pc = "vi_while"
    /\ IF flag
       THEN /\ delta' = 0
            /\ v_tmp' = v
            /\ idx' = 1
            /\ pc' = "vi_for"
       ELSE /\ pc' = "vi_done"
            /\ UNCHANGED <<delta, v_tmp, idx>>
    /\ UNCHANGED <<map, gamma, v, policy, viOnly, piOnly, restVars>>

\* the body of "for s in all_states" for the state s, best being what the
\* loop over the actions leaves: v and the policy are written, and delta1
\* assigned, only if some action-value exceeded -1
VI_Body(s, best, new_delta1) ==
    /\ policy' = IF best.argmax_action # None
                 THEN [policy EXCEPT ![s] = best.argmax_action] ELSE policy
    /\ v' = IF best.argmax_action # None THEN [v EXCEPT ![s] = best.max_a_value] ELSE v
    /\ delta1' = new_delta1
    /\ IF new_delta1 = Unbound
       THEN /\ pc' = "vi_error"
            /\ UNCHANGED <<delta, flag, idx>>
       ELSE /\ delta' = Max(delta, new_delta1)
            /\ flag' = IF Max(delta, new_delta1) < THETA_VI THEN FALSE ELSE flag
            /\ idx' = idx + 1
            /\ pc' = "vi_for"

\* delta1 after the loop over the actions
VI_Delta1(s, best) ==
    IF best.argmax_action # None THEN Abs(v_tmp[s] - best.max_a_value) ELSE delta1

\* one pass of the body of "for s in all_states"
VI_ForState ==
    /\ pc = "vi_for"
    /\ idx <= NumStates
    /\ \E best \in {ScanActions(map, gamma, v_tmp, CurState)} :
          VI_Body(CurState, best, VI_Delta1(CurState, best))
    /\ UNCHANGED <<map, gamma, v_tmp, piOnly, restVars>>

\* the loop over the states is exhausted: back to the test of "while flag"
VI_ForEnd ==
    /\ pc = "vi_for"
    /\ idx > NumStates
    /\ pc' = "vi_while"
    /\ UNCHANGED <<map, gamma, v, v_tmp, policy, delta, idx, viOnly, piOnly, restVars>>

NextVI == VI_While \/ VI_ForState \/ VI_ForEnd

SpecVI == InitVI /\ [][NextVI]_vars

\* the action-value of an intended action out of the sweep's snapshot
Q(s, action) == a_value(map, gamma, v_tmp, s, action)

MaxQ(s) == CHOOSE q \in {Q(s, a) : a \in ActionSet} : \A a \in ActionSet : Q(s, a) <= q

\* the first action, in the order UP, DOWN, LEFT, RIGHT, that attains MaxQ
FirstArgMax(s) ==
    ActionValues[CHOOSE i \in 1..4 :
        /\ Q(s, ActionValues[i]) = MaxQ(s)
        /\ \A j \in 1..(i - 1) : Q(s, ActionValues[j]) # MaxQ(s)]

\* C8: when the loop of value_iteration exits, every state's value changed by
\* less than theta in the final sweep.
C8_ExitOnlyBelowTheta ==
    pc = "vi_done" => \A s \in States(map) : Abs(v_tmp[s] - v[s]) < THETA_VI

\* C9: at the end of every sweep, each state's value is the maximum of the
\* four action-values computed from the sweep's snapshot, and its policy entry
\* is the first action attaining that maximum.
C9_BellmanFirstMax ==
    (pc = "vi_for" /\ idx > NumStates) =>
        \A s \in States(map) : v[s] = MaxQ(s) /\ policy[s] = FirstArgMax(s)

----------------------------------------------------------------------------
(* bonus_policy_iteration.py: Agent.evaluate_policy, Agent.improve_policy  *)
(* and the outer loop of the main block.  pc: "ev_while" at the test of    *)
(* "while delta >= theta", "ev_for" inside evaluate_policy's loop over the *)
(* states, "im_for" inside improve_policy's loop over the states; idx is   *)
(* the next state of the loop.  is_stable is the main block's variable,    *)
(* is_stable_local the local of improve_policy.  prev names the last call  *)
(* that returned.                                                          *)

InitPI ==
    /\ map \in GridsUpTo(MaxCellsPI)
    /\ gamma \in Gammas
    /\ v = ZeroValues(map)
    /\ policy = [s \in States(map) |-> 0]
    /\ v_tmp = [p \in DOMAIN ZeroValues(map) |-> Unbound]
    /\ delta = Unbound
    /\ delta1 = Unbound
    /\ flag = TRUE
    /\ idx = 0
    /\ is_stable = FALSE
    /\ is_stable_local = FALSE
    /\ count = 0
    /\ prev = "none"
    /\ calls = 0
    /\ EnvUnused
    /\ AgentsUnused

\* evaluate_policy is entered from the position from: count = 0, delta = np.inf
EV_Call(from) ==
    /\ pc = from
    /\ count' = 0
    /\ delta' = Inf
    /\ pc' = "ev_while"
    /\ UNCHANGED <<map, gamma, v, v_tmp, policy, idx, viOnly, is_stable, is_stable_local, prev,
                   envVars, agentVars>>

\* while delta >= theta: count += 1; delta = 0; v_tmp = copy.deepcopy(self.v)
EV_While ==
    /\ pc = "ev_while"
    /\ delta >= THETA_EVAL
    /\ count' = count + 1
    /\ delta' = 0
    /\ v_tmp' = v
    /\ idx' = 1
    /\ pc' = "ev_for"
    /\ UNCHANGED <<map, gamma, v, policy, viOnly, is_stable, is_stable_local, prev,
                   restVars>>

\* value in evaluate_policy's version that reads the values already written
\* in this sweep (self.v) instead of the snapshot
EV_Value_InPlace(s) == a_value(map, gamma, v, s, policy[s])

\* value: the loop over the outcomes of the policy's action, out of v_tmp
EV_Value(s) == a_value(map, gamma, v_tmp, s, policy[s])

\* self.v[y][x] = value; delta = max(delta, abs(v_tmp[y][x] - self.v[y][x]))
EV_Body(s, value) ==
    /\ v' = [v EXCEPT ![s] = value]
    /\ delta' = Max(delta, Abs(v_tmp[s] - value))

\* one pass of the body of "for s in all_states" of evaluate_policy
EV_ForState ==
    /\ pc = "ev_for"
    /\ idx <= NumStates
    /\ EV_Body(CurState, EV_Value(CurState))
    /\ idx' = idx + 1
    /\ UNCHANGED <<map, gamma, v_tmp, policy, pc, viOnly, piOnly, restVars>>

\* the loop over the states is exhausted (lines 139 to 142 change nothing)
EV_ForEnd ==
    /\ pc = "ev_for"
    /\ idx > NumStates
    /\ pc' = "ev_while"
    /\ UNCHANGED <<map, gamma, v, v_tmp, policy, delta, idx, viOnly, piOnly, restVars>>

\* the test of "while delta >= theta" fails: evaluate_policy returns to to
EV_Return(to) ==
    /\ pc = "ev_while"
    /\ ~(delta >= THETA_EVAL)
    /\ pc' = to
    /\ prev' = "evaluate_policy"
    /\ UNCHANGED <<map, gamma, v, v_tmp, policy, delta, idx, viOnly, is_stable, is_stable_local,
                   count, restVars>>

\* improve_policy is entered from the position from: is_stable = True
IM_Call(from) ==
    /\ pc = from
    /\ is_stable_local' = TRUE
    /\ idx' = 1
    /\ pc' = "im_for"
    /\ UNCHANGED <<map, gamma, v, v_tmp, policy, delta, viOnly, is_stable, count, prev,
                   envVars, agentVars>>

\* the body of improve_policy's loop for the state s, best being what the
\* loop over the actions leaves: the policy is written only if some
\* action-value exceeded -1, and old_pi is compared with argmax_action
IM_Body(s, best) ==
    /\ policy' = IF best.argmax_action # None
                 THEN [policy EXCEPT ![s] = best.argmax_action] ELSE policy
    /\ is_stable_local' = IF policy[s] # best.argmax_action THEN FALSE ELSE is_stable_local

\* one pass of the body of "for s in all_states" of improve_policy
IM_ForState ==
    /\ pc = "im_for"
    /\ idx <= NumStates
    /\ IM_Body(CurState, ScanActions(map, gamma, v, CurState))
    /\ idx' = idx + 1
    /\ UNCHANGED <<map, gamma, v, v_tmp, delta, pc, viOnly, is_stable, count, prev,
                   restVars>>

\* return is_stable, received by the caller at to
IM_Return(to) ==
    /\ pc = "im_for"
    /\ idx > NumStates
    /\ is_stable' = is_stable_local
    /\ pc' = to
    /\ prev' = "improve_policy"
    /\ UNCHANGED <<map, gamma, v, v_tmp, policy, delta, idx, viOnly, is_stable_local, count,
                   restVars>>

(* The two methods called in any order, one call at a time, at most       *)
(* MaxCalls calls in all; calls counts the calls made                      *)

InitCalls == InitPI /\ pc = Idle

\* the caller calls evaluate_policy
Caller_Evaluate ==
    /\ calls < MaxCalls
    /\ calls' = calls + 1
    /\ EV_Call(Idle)

\* the caller calls improve_policy
Caller_Improve ==
    /\ calls < MaxCalls
    /\ calls' = calls + 1
    /\ IM_Call(Idle)

NextCalls ==
    \/ Caller_Evaluate
    \/ EV_While
    \/ EV_ForState
    \/ EV_ForEnd
    \/ EV_Return(Idle)
    \/ Caller_Improve
    \/ IM_ForState
    \/ IM_Return(Idle)

SpecCalls == InitCalls /\ [][NextCalls]_vars

(* The main block: while is_stable == False: agent.evaluate_policy();      *)
(* is_stable = agent.improve_policy()                                      *)

InitMain == InitPI /\ pc = "main_while"

\* the test of the outer loop fails: the loop is left
Main_Exit ==
    /\ pc = "main_while"
    /\ ~(is_stable = FALSE)
    /\ pc' = "done"
    /\ UNCHANGED <<map, gamma, v, v_tmp, policy, delta, idx, viOnly, piOnly, restVars>>

\* the test of the outer loop holds: agent.evaluate_policy()
Main_Evaluate ==
    /\ is_stable = FALSE
    /\ EV_Call("main_while")
    /\ UNCHANGED calls

\* is_stable = agent.improve_policy()
Main_Improve ==
    /\ IM_Call("main_improve")
    /\ UNCHANGED calls

NextMain ==
    \/ Main_Evaluate
    \/ Main_Exit
    \/ EV_While
    \/ EV_ForState
    \/ EV_ForEnd
    \/ EV_Return("main_improve")
    \/ Main_Improve
    \/ IM_ForState
    \/ IM_Return("main_while")

SpecMain == InitMain /\ [][NextMain]_vars

\* the main block runs on its own: no step of it waits for anything
FairSpecMain == SpecMain /\ WF_vars(NextMain)

----------------------------------------------------------------------------
(* What the claims about policy iteration speak of *)

\* where the actual action b takes the agent from s
Landing(s, b) == IF Rejected(map, s, b) THEN s ELSE Candidate(s, b)

\* the probability, in tenths, that intending a the agent does b
SlipProb(a, b) == IF b = a THEN 8 ELSE IF b \in Perpendicular(a) THEN 1 ELSE 0

\* prob * (reward + gamma * vals[next]) for the actual action b
ExpectedTerm(vals, s, a, b) ==
    RoundDiv(SlipProb(a, b) * (TILE_REWARD[TileAt(map, Landing(s, b))]
                               + RoundDiv(gamma * vals[Landing(s, b)], GammaDen)),
             ProbDen)

\* the expected value of intending a in s, successor values out of vals
ExpectedValue(vals, s, a) ==
    ExpectedTerm(vals, s, a, 0) + ExpectedTerm(vals, s, a, 1)
        + ExpectedTerm(vals, s, a, 2) + ExpectedTerm(vals, s, a, 3)

\* the largest absolute change among the first n states of the sweep
RECURSIVE MaxChange(_)
MaxChange(n) ==
    IF n = 0 THEN 0
    ELSE Max(MaxChange(n - 1), Abs(v_tmp[StatesSeq(map)[n]] - v[StatesSeq(map)[n]]))

InEvaluate == pc \in {"ev_while", "ev_for"}

\* the states the sweep has passed hold the expected value of the policy's
\* action out of the snapshot, the others still hold the snapshot's value,
\* and delta is the largest change so far
C10_SweepState ==
    /\ pc = "ev_for" =>
          /\ \A i \in 1..NumStates :
                LET s == StatesSeq(map)[i]
                IN  v[s] = IF i < idx THEN ExpectedValue(v_tmp, s, policy[s]) ELSE v_tmp[s]
          /\ delta = MaxChange(idx - 1)
          /\ count >= 1
    /\ (pc = "ev_while" /\ count = 0) => delta = Inf
    /\ (pc = "ev_while" /\ count >= 1) =>
          /\ \A s \in States(map) : v[s] = ExpectedValue(v_tmp, s, policy[s])
          /\ delta = MaxChange(NumStates)

\* evaluate_policy never writes the policy, starts a sweep whenever none has
\* been made or the last one changed some state by theta or more, and
\* returns otherwise
C10_SweepStep ==
    /\ InEvaluate => policy' = policy
    /\ (pc = "ev_while" /\ pc' # "ev_while") =>
          IF count >= 1 /\ MaxChange(NumStates) < THETA_EVAL
          THEN pc' # "ev_for" /\ v' = v
          ELSE pc' = "ev_for" /\ v_tmp' = v /\ count' = count + 1

\* C10: every sweep of evaluate_policy gives each state the expected value of
\* the current policy's action with all successor values read from the
\* snapshot taken at the start of the sweep; the policy is not modified; at
\* least one sweep is made; sweeps repeat until the largest change of a sweep
\* is below theta_eval, and then evaluate_policy returns.
C10_SynchronousEvaluation == []C10_SweepState /\ [][C10_SweepStep]_vars

\* evaluate_policy is about to return after several sweeps over two states,
\* the second of which moved away from its start value
C10_Witness ==
    /\ pc = "ev_while"
    /\ count >= 2
    /\ delta < THETA_EVAL
    /\ NumStates = 2
    /\ \A s \in States(map) : v[s] # 0

\* C4: the outer loop of policy iteration halts: improve_policy eventually
\* reports stable.
C4_PolicyIterationTerminates == <>(pc = "done")

\* C5: a call of improve_policy that follows a call of improve_policy, with
\* no evaluate_policy between them, returns stable = True and leaves the
\* policy as it found it.
C5_ImproveIdempotent ==
    /\ [](pc = "im_for" /\ idx > NumStates /\ prev = "improve_policy" => is_stable_local)
    /\ [][(pc = "im_for" /\ prev = "improve_policy") => policy' = policy]_vars

----------------------------------------------------------------------------
(* Agent.__init__(self, env, gamma, policy={}, actions=ACTIONS).  heap is  *)
(* the dict objects by identity: heap[1] is the one dict that the default  *)
(* value of the parameter policy denotes, made once when the def statement *)
(* is executed and empty then; a dict is a function from its keys to its   *)
(* values.  agents are the Agents constructed so far, each with its env,   *)
(* the identity of the dict its self.policy refers to, and whether the     *)
(* caller passed a policy.  The construction reads only env.states, so the *)
(* grids here are of White and Wall tiles.                                 *)

DefaultPolicy == 1

EmptyDict == <<>>

AgentGrids ==
    {m \in GridsUpTo(MaxCellsAgents) :
        \A y \in 1..Height(m) : \A x \in 1..Width(m) : m[y][x] \in {"White", "Wall"}}

InitAgents ==
    /\ heap = <<EmptyDict>>
    /\ agents = <<>>
    /\ map = <<<<"Wall">>>>
    /\ calls = 0
    /\ EnvUnused
    /\ gamma = 0 /\ v = <<>> /\ v_tmp = <<>> /\ policy = <<>>
    /\ delta = Unbound /\ delta1 = Unbound /\ flag = TRUE /\ is_stable = FALSE
    /\ is_stable_local = FALSE /\ count = 0
    /\ pc = Idle /\ idx = 0 /\ prev = "none"

\* "if not policy: for s in env.states: policy[s] = None" on the dict d
FillIfEmpty(d, env) ==
    IF DOMAIN d = {} THEN [s \in States(env) |-> None] ELSE d

\* the body of __init__ for the dict object ref bound to the parameter policy
InitBody(env, ref, explicit, h) ==
    /\ heap' = [h EXCEPT ![ref] = FillIfEmpty(h[ref], env)]
    /\ agents' = Append(agents, [env |-> env, policy |-> ref, explicit |-> explicit])

\* Agent(env, gamma): the parameter policy is bound to its default value
Construct(env) ==
    /\ Len(agents) < MaxAgents
    /\ InitBody(env, DefaultPolicy, FALSE, heap)
    /\ UNCHANGED <<map, envVars, solverVars>>

\* Agent(env, gamma, policy={}): the caller passes a new empty dict
ConstructWithPolicy(env) ==
    /\ Len(agents) < MaxAgents
    /\ InitBody(env, Len(heap) + 1, TRUE, Append(heap, EmptyDict))
    /\ UNCHANGED <<map, envVars, solverVars>>

\* the i-th agent writes self.policy[s] = a for a key s of its policy, as its
\* solver does for "s in self.policy.keys()"
WritePolicy(i, s, a) ==
    /\ i \in 1..Len(agents)
    /\ s \in DOMAIN heap[agents[i].policy]
    /\ heap' = [heap EXCEPT ![agents[i].policy][s] = a]
    /\ UNCHANGED <<map, agents, envVars, solverVars>>

AllCells == (0..(MaxCellsAgents - 1)) \X (0..(MaxCellsAgents - 1))

NextAgents ==
    \/ \E env \in AgentGrids : Construct(env)
    \/ \E env \in AgentGrids : ConstructWithPolicy(env)
    \/ \E i \in 1..MaxAgents : \E s \in AllCells : \E a \in ActionSet : WritePolicy(i, s, a)

SpecAgents == InitAgents /\ [][NextAgents]_vars

\* C7: every Agent constructed without a policy argument has a policy dict
\* of its own, whose keys are exactly the states of its env and which no
\* other Agent's policy refers to.
C7_FreshPolicyPerAgent ==
    \A i \in 1..Len(agents) :
        ~agents[i].explicit =>
            /\ DOMAIN heap[agents[i].policy] = States(agents[i].env)
            /\ \A j \in 1..Len(agents) : j # i => agents[j].policy # agents[i].policy

====
